---- MODULE Spec2Model ----
(***************************************************************************)
(* Model of the Reelify timeline interpreter: the three Motion Canvas      *)
(* scene generators (CanvasScene, HybridScene, MasterScene) that parse a   *)
(* storyboard and play its actions one after the other.                    *)
(*                                                                         *)
(* Units.  Positions and lengths are kept in HALF PIXELS, so that the      *)
(* source's `width / 2` is exact for odd widths: a source value v is the   *)
(* model value 2*v.  Opacities and scales are in percent (0.6 is 60).      *)
(* An optional value is <<>> (undefined) or <<v>>.  Durations are in       *)
(* milliseconds (1.0 s is 1000); elapsed time is counted in ticks of       *)
(* 1/660 ms, which keeps duration / text.length * factor / 2 exact for     *)
(* the text lengths used here.                                             *)
(***************************************************************************)
EXTENDS Integers, Sequences, FiniteSets, TLC

\* Longest action list of a storyboard.
MaxActions == 3
\* Length of the text that `type` actions carry.
MaxLen == 4
\* Longest action list of the storyboards played with every jitter factor.
MaxShort == 2
\* Largest coordinate step of the rectangles handed to toCanvasCoords alone.
MaxGrid == 2
\* Most calls made on one CompositionBuilder.
MaxCalls == 4
\* Most animations put on one SVGAnimationSequencer timeline.
MaxAnimations == 3

Undefined == <<>>
Some(v) == <<v>>
Truthy_defined(o) == o # Undefined
\* JavaScript truthiness of an optional string: `!s` holds for undefined and "".
Truthy(o) == o # Undefined /\ o[1] # ""
\* Pixels to half pixels.
Px(n) == 2 * n
\* Milliseconds to ticks.
Ms(t) == 660 * t

Variants == {"Canvas", "Hybrid", "Master"}

ActionTypes == {"cursor_move", "click", "type", "wait", "switch_scene"}

\* z.number().default(1.0), in milliseconds.
DefaultDuration == 1000

----------------------------------------------------------------------------
(* The storyboards the interpreter is run on. *)

S1 ==
  [sceneId |-> "s1",
   colorScheme |-> [primary |-> "#1a73e8", theme |-> "light"],
   elements |-> <<
     [id |-> "a", type |-> "input",
      coordinates |-> [x |-> 745, y |-> 390, width |-> 600, height |-> 40]],
     [id |-> "b", type |-> "button",
      coordinates |-> [x |-> 100, y |-> 200, width |-> 81, height |-> 33]] >>]

S2 ==
  [sceneId |-> "s2",
   colorScheme |-> [primary |-> "#bb86fc", theme |-> "dark"],
   elements |-> <<
     [id |-> "b", type |-> "button",
      coordinates |-> [x |-> 300, y |-> 700, width |-> 120, height |-> 48]],
     [id |-> "c", type |-> "icon",
      coordinates |-> [x |-> 1800, y |-> 20, width |-> 25, height |-> 24]] >>]

SceneLists == {<<>>, <<S1, S2>>}

TypedText == SubSeq("abcdefghij", 1, MaxLen)

Act(t, target, p) ==
  [type |-> t, targetElementId |-> target, payload |-> p, duration |-> Some(2000)]

\* The raw (unvalidated) actions a storyboard file may contain.
ActionInputs ==
  {Act("cursor_move", Some(e), Undefined) : e \in {"a", "b", "c"}}
  \cup {Act("click", t, Undefined) : t \in {Undefined, Some("a"), Some("c")}}
  \cup {Act("type", Some("a"), p) : p \in {Undefined, Some(""), Some(TypedText)}}
  \cup {Act("type", Some("c"), Some(TypedText))}
  \cup {[Act("wait", Undefined, Undefined) EXCEPT !.duration = Undefined]}
  \cup {Act("switch_scene", Undefined, p) : p \in {Undefined, Some("s2"), Some("sX")}}
  \cup {Act("hover", Some("a"), Undefined)}

ActionLists == UNION {[1..n -> ActionInputs] : n \in 0..MaxActions}

\* The end-to-end scenario: one scene holding a search box; move, click, type.
SearchScene ==
  [sceneId |-> "search",
   colorScheme |-> [primary |-> "#1a73e8", theme |-> "light"],
   elements |-> <<
     [id |-> "search_input", type |-> "input",
      coordinates |-> [x |-> 745, y |-> 390, width |-> 600, height |-> 40]] >>]

SearchStoryboard ==
  [scenes |-> <<SearchScene>>,
   actions |-> <<
     [type |-> "cursor_move", targetElementId |-> Some("search_input"),
      payload |-> Undefined, duration |-> Some(1000)],
     [type |-> "click", targetElementId |-> Some("search_input"),
      payload |-> Undefined, duration |-> Some(200)],
     [type |-> "type", targetElementId |-> Some("search_input"),
      payload |-> Some("Hello World"), duration |-> Some(2000)] >>]

Storyboards == [scenes : SceneLists, actions : ActionLists] \cup {SearchStoryboard}

ShortStoryboards ==
  [scenes : SceneLists, actions : UNION {[1..n -> ActionInputs] : n \in 0..MaxShort}]

\* Rectangles on the 1920x1080 frame: corners, odd and even sizes.
Geometries ==
  [x : {0} \cup {745 * k : k \in 1..MaxGrid}, y : {0} \cup {390 * k : k \in 1..MaxGrid},
   width : {0, 25, 81, 600}, height : {0, 33, 40}]

\* Files put to the schema alone: a scene whose two elements carry one id, a
\* scene with an element of no known kind, and actions whose duration is
\* absent, negative, zero or positive.
DupScene ==
  [sceneId |-> "dup",
   colorScheme |-> [primary |-> "#1a73e8", theme |-> "light"],
   elements |-> <<
     [id |-> "a", type |-> "input",
      coordinates |-> [x |-> 745, y |-> 390, width |-> 600, height |-> 40]],
     [id |-> "a", type |-> "button",
      coordinates |-> [x |-> 100, y |-> 200, width |-> 81, height |-> 33]] >>]

BadScene ==
  [sceneId |-> "bad",
   colorScheme |-> [primary |-> "#1a73e8", theme |-> "light"],
   elements |-> <<
     [id |-> "w", type |-> "widget",
      coordinates |-> [x |-> 0, y |-> 0, width |-> 10, height |-> 10]] >>]

\* A scene whose colour scheme has no primary colour.
S3 ==
  [sceneId |-> "s3",
   colorScheme |-> [primary |-> "", theme |-> "dark"],
   elements |-> <<
     [id |-> "c", type |-> "icon",
      coordinates |-> [x |-> 1800, y |-> 20, width |-> 25, height |-> 24]] >>]

\* Short storyboards over three scenes, with a switch to each of them.
ThemeStoryboards ==
  [scenes : {<<>>, <<S1, S2, S3>>},
   actions : UNION {[1..n -> ActionInputs \cup {Act("switch_scene", Undefined, Some("s3"))}] :
                      n \in 0..MaxShort}]

SchemaSceneLists == {<<>>, <<S1>>, <<DupScene>>, <<S1, BadScene>>}

SchemaDurations == {Undefined, Some(0 - 500), Some(0), Some(2000)}

SchemaActions ==
  {[type |-> t, targetElementId |-> Undefined, payload |-> Undefined, duration |-> d] :
     t \in {"wait", "click", "hover"}, d \in SchemaDurations}

SchemaStoryboards ==
  [scenes : SchemaSceneLists,
   actions : UNION {[1..n -> SchemaActions] : n \in 0..MaxShort}]

----------------------------------------------------------------------------
(* Schema validation (zod). *)

\* ActionSchema: the type must be in the enum, a missing duration becomes 1.0.
\* targetElementId and payload are optional strings and are not looked up.
ActionSchemaOk(a) == a.type \in ActionTypes

ActionSchemaParse(a) ==
  [a EXCEPT !.duration = IF a.duration = Undefined THEN DefaultDuration ELSE a.duration[1]]

\* UIElementSchema: the type must be in the enum; id is any string and the
\* coordinates are any numbers.
ElementTypes == {"button", "input", "text", "image", "link", "icon", "logo", "container"}

UIElementSchemaOk(e) == e.type \in ElementTypes

\* ColorSchemeSchema: the theme must be in the enum; primary is any string.
ColorSchemeSchemaOk(cs) == cs.theme \in {"light", "dark"}

\* SceneMapSchema: elements is z.array(UIElementSchema), each element checked
\* on its own.
SceneMapSchemaOk(sc) ==
  /\ ColorSchemeSchemaOk(sc.colorScheme)
  /\ \A k \in 1..Len(sc.elements) : UIElementSchemaOk(sc.elements[k])

\* StoryboardSchema.parse: throws unless every scene passes SceneMapSchema and
\* every action passes ActionSchema.
StoryboardSchemaOk(sb) ==
  /\ \A k \in 1..Len(sb.scenes) : SceneMapSchemaOk(sb.scenes[k])
  /\ \A k \in 1..Len(sb.actions) : ActionSchemaOk(sb.actions[k])

StoryboardSchemaParse(sb) ==
  [scenes |-> sb.scenes,
   actions |-> [k \in 1..Len(sb.actions) |-> ActionSchemaParse(sb.actions[k])]]

----------------------------------------------------------------------------
(* Coordinate transforms. *)

toCanvasCoords_topLeft(x, y, width, height) ==
  [x |-> Px(x) - Px(960), y |-> Px(y) - Px(540)]

\* EnhancedUIElements.toCanvasCoords: centre of the rectangle, canvas-centred.
toCanvasCoords(x, y, width, height) ==
  [x |-> Px(x) + width - Px(960), y |-> Px(y) + height - Px(540)]

getElementCanvasPosition(element) ==
  toCanvasCoords(element.coordinates.x, element.coordinates.y,
                 element.coordinates.width, element.coordinates.height)

\* MasterScene's own toCanvasCoords(x, y): no half-size term.
MasterToCanvasCoords(x, y) == [x |-> Px(x) - Px(960), y |-> Px(y) - Px(540)]

----------------------------------------------------------------------------
VARIABLES
  variant,              \* which scene generator runs
  storyboardData,       \* the imported storyboard.json
  storyboard,           \* StoryboardSchema.parse(storyboardData), once parsed
  status,               \* "idle", "rejected", "error", "running", "finished"
  ai,                   \* position of the for-of loop in storyboard.actions
  pc,                   \* the yield the generator is suspended at
  activeScene,          \* index into storyboard.scenes
  cursorPointer,        \* [pos, scale, opacity, stroke]
  highlightBox,         \* [pos, width, height, opacity, stroke]
  cursorClickRipple,    \* [pos, size, opacity, stroke]
  typingText,           \* [pos, text, opacity, fontSize]
  children,             \* nodes of uiContainer / extractedElementsLayer
  layerOpacity,         \* [screenshot, container]
  useExtractedElements, \* HybridScene's promoted flag
  currentPos,           \* the local `currentPos` of click and type
  i,                    \* the typing loop's index
  charDelay,            \* the typing loop's `charDelay`, in ticks
  clock,                \* playback time elapsed, in ticks
  began,                \* the clock when the current action was dispatched
  loopBegan,            \* the clock when the current typing loop was entered
  jitter,               \* the factors 0.8 + Math.random() * 0.4 may take, percent
  diag,                 \* console.warn calls, in order
  log,                  \* the steps performed, in order
  run,                  \* 1 for the first playback, 2 for a replay
  firstRun,             \* the log the first playback ended with
  geometry,             \* a rectangle handed to toCanvasCoords
  renderPos,            \* what toCanvasCoords returned for it, once called
  builder,              \* a CompositionBuilder, the Layer objects and what build() returned
  sequencer             \* an SVGAnimationSequencer and what getDuration() returned

vars == <<variant, storyboardData, storyboard, status, ai, pc, activeScene,
          cursorPointer, highlightBox, cursorClickRipple, typingText, children,
          layerOpacity, useExtractedElements, currentPos, i, charDelay, clock,
          began, loopBegan, jitter, diag, log, run, firstRun, geometry, renderPos,
          builder, sequencer>>

visuals == <<cursorPointer, highlightBox, cursorClickRipple, typingText,
             children, layerOpacity>>

Origin == [x |-> 0, y |-> 0]

\* const cursorColor / highlightColor, computed once from a colour scheme.
CursorColorOf(cs) == IF cs.theme = "dark" THEN "#FFFFFF" ELSE "#000000"

HighlightColorOf_noFallback(cs) == cs.primary

\* colorScheme.primary || '#4285f4'
HighlightColorOf(cs) == IF cs.primary = "" THEN "#4285f4" ELSE cs.primary

\* The consts are taken from scenes[0] and never reassigned.
highlightColor == HighlightColorOf(storyboard.scenes[1].colorScheme)

\* createEnhancedUIElement: the node properties the interpreter animates.
createEnhancedUIElement(element) ==
  [key |-> element.id,
   scale |-> 100,
   opacity |-> CASE element.type \in {"icon", "image"} -> 80
                 [] element.type = "logo" -> 30
                 [] OTHER -> 100,
   shadowBlur |-> IF element.type = "button" THEN Px(4) ELSE 0,
   shadowColor |-> IF element.type = "button" THEN "rgba(0,0,0,0.2)" ELSE "none"]

\* HybridScene's <Img key=id opacity=0> for each element of the first scene.
createAssetNode(element) ==
  [key |-> element.id, scale |-> 100, opacity |-> 0, shadowBlur |-> 0,
   shadowColor |-> "none"]

BuildChildren(v, sc) ==
  CASE v = "Canvas" -> [k \in 1..Len(sc.elements) |-> createEnhancedUIElement(sc.elements[k])]
    [] v = "Hybrid" -> [k \in 1..Len(sc.elements) |-> createAssetNode(sc.elements[k])]
    [] OTHER -> <<>>

\* Math.random() is in [0, 1): the factor 0.8 + Math.random() * 0.4 ranges over
\* [0.8, 1.2).  Its least value, its middle and a value next to its supremum.
JitterFactors == {80, 100, 119}

\* The factor for Math.random() = 0.5.
NominalJitter == 100

\* The two ends of the range alone.
JitterExtremes == JitterFactors \ {NominalJitter}

\* The scene as view.add builds it.
InitialCursor ==
  [pos |-> [x |-> -Px(960), y |-> -Px(540)], scale |-> 100, opacity |-> 100,
   stroke |-> "#000000"]
InitialHighlight ==
  [pos |-> Origin, width |-> 0, height |-> 0, opacity |-> 0, stroke |-> "#4285f4"]
InitialRipple == [pos |-> Origin, size |-> Px(40), opacity |-> 0, stroke |-> "#4285f4"]
InitialText == [pos |-> Origin, text |-> "", opacity |-> 0, fontSize |-> Px(16)]

NoGeometry == [x |-> 0, y |-> 0, width |-> 0, height |-> 0]

\* new CompositionBuilder(...): layers = [], assets = {}, nextIndex = 0.  No
\* Layer object exists yet (`index` maps each Layer object to its index
\* field) and build() has not been called (`returned`).  `calls` lists the
\* calls made on the builder.
NewBuilder ==
  [layers |-> <<>>, assets |-> <<>>, nextIndex |-> 0, index |-> <<>>,
   returned |-> <<>>, calls |-> <<>>]

\* new SVGAnimationSequencer(): timeline = [].  `asked` holds what the last
\* getDuration() returned, if it was called since the last addAnimation.
NewSequencer == [timeline |-> <<>>, asked |-> Undefined]

\* A generator about to run on one of `storyboards`, the random source
\* yielding the factors `factors`; toCanvasCoords about to be called on one of
\* `geometries`.
InitOn(storyboards, factors, geometries) ==
  /\ variant \in Variants
  /\ storyboardData \in storyboards
  /\ storyboard = storyboardData
  /\ status = "idle"
  /\ ai = 1
  /\ pc = "dispatch"
  /\ activeScene = 1
  /\ cursorPointer = InitialCursor
  /\ highlightBox = InitialHighlight
  /\ cursorClickRipple = InitialRipple
  /\ typingText = InitialText
  /\ children = <<>>
  /\ layerOpacity = [screenshot |-> 100, container |-> 100]
  /\ useExtractedElements = FALSE
  /\ currentPos = Origin
  /\ i = 0
  /\ charDelay = 0
  /\ clock = 0
  /\ began = 0
  /\ loopBegan = 0
  /\ jitter = factors
  /\ diag = <<>>
  /\ log = <<>>
  /\ run = 1
  /\ firstRun = <<>>
  /\ geometry \in geometries
  /\ renderPos = Undefined
  /\ builder = NewBuilder
  /\ sequencer = NewSequencer

Init == InitOn(Storyboards, {NominalJitter}, {NoGeometry})

----------------------------------------------------------------------------
(* Construction: parse, pick scenes[0], build the view. *)

ParseRejected ==
  /\ status = "idle"
  /\ ~StoryboardSchemaOk(storyboardData)
  /\ status' = "rejected"
  /\ UNCHANGED <<builder, sequencer, variant, storyboardData, storyboard, ai, pc, activeScene, visuals,
                 useExtractedElements, currentPos, i, charDelay, clock, began, loopBegan, jitter,
                 diag, log, run, firstRun, geometry, renderPos>>

NoScenes_silent ==
  /\ status = "idle"
  /\ StoryboardSchemaOk(storyboardData)
  /\ storyboardData.scenes = <<>>
  /\ status' = "finished"
  /\ storyboard' = StoryboardSchemaParse(storyboardData)
  /\ UNCHANGED <<builder, sequencer, variant, storyboardData, ai, pc, activeScene, visuals,
                 useExtractedElements, currentPos, i, charDelay, clock, began, loopBegan, jitter,
                 diag, log, run, firstRun, geometry, renderPos>>

\* if (!activeScene) throw new Error('No scenes found in storyboard'): the
\* generator ends in error before view.add and before the action loop.
NoScenes ==
  /\ status = "idle"
  /\ StoryboardSchemaOk(storyboardData)
  /\ storyboardData.scenes = <<>>
  /\ status' = "error"
  /\ storyboard' = StoryboardSchemaParse(storyboardData)
  /\ UNCHANGED <<builder, sequencer, variant, storyboardData, ai, pc, activeScene, visuals,
                 useExtractedElements, currentPos, i, charDelay, clock, began, loopBegan, jitter,
                 diag, log, run, firstRun, geometry, renderPos>>

Start ==
  /\ status = "idle"
  /\ StoryboardSchemaOk(storyboardData)
  /\ storyboardData.scenes # <<>>
  /\ status' = "running"
  /\ storyboard' = StoryboardSchemaParse(storyboardData)
  /\ activeScene' = 1
  /\ LET cs == storyboardData.scenes[1].colorScheme IN
       /\ cursorPointer' = [cursorPointer EXCEPT !.stroke = CursorColorOf(cs)]
       /\ highlightBox' = [highlightBox EXCEPT !.stroke = HighlightColorOf(cs)]
       /\ cursorClickRipple' = [cursorClickRipple EXCEPT !.stroke = HighlightColorOf(cs)]
  /\ typingText' = [typingText EXCEPT !.fontSize = IF variant = "Master" THEN Px(32) ELSE Px(16)]
  /\ children' = BuildChildren(variant, storyboardData.scenes[1])
  /\ layerOpacity' = [screenshot |-> 100,
                      container |-> IF variant = "Hybrid" THEN 0 ELSE 100]
  /\ UNCHANGED <<builder, sequencer, variant, storyboardData, ai, pc, useExtractedElements, currentPos,
                 i, charDelay, clock, began, loopBegan, jitter, diag, log, run, firstRun, geometry,
                 renderPos>>

----------------------------------------------------------------------------
(* The action loop: helpers. *)

Running == status = "running" /\ ai <= Len(storyboard.actions)

action == storyboard.actions[ai]

scene == storyboard.scenes[activeScene]

First(S) == CHOOSE k \in S : \A j \in S : k <= j

\* activeScene.elements.find(e => e.id === elementId)
findElement(elementId) ==
  IF ~Truthy(elementId) THEN Undefined
  ELSE LET hits == {k \in 1..Len(scene.elements) : scene.elements[k].id = elementId[1]}
       IN  IF hits = {} THEN Undefined ELSE Some(scene.elements[First(hits)])

\* children.find(child => child.key === elementId): index of the node, 0 if none.
\* CanvasScene first requires findElement to succeed; MasterScene has no nodes.
getElementNode(elementId) ==
  LET hits == {k \in 1..Len(children) :
                 elementId # Undefined /\ children[k].key = elementId[1]}
  IN  CASE variant = "Canvas" ->
             IF findElement(elementId) = Undefined \/ hits = {} THEN 0 ELSE First(hits)
        [] variant = "Hybrid" -> IF hits = {} THEN 0 ELSE First(hits)
        [] OTHER -> 0

targetElement == findElement(action.targetElementId)
targetNode == getElementNode(action.targetElementId)

\* The centre the cursor and the highlight are sent to.
targetPos ==
  LET c == targetElement[1].coordinates
  IN  IF variant = "Master" THEN MasterToCanvasCoords(c.x, c.y)
      ELSE getElementCanvasPosition(targetElement[1])

Advance_skip(k) == k + 2

Advance_late(k) == IF clock - began > Ms(2300) THEN k + 2 ELSE k + 1

\* The for-of iterator: the next action of the list.
Advance(k) == k + 1

\* One log entry per step: the action it belongs to, what it did, whether it
\* is the action's first step, whether it is its last, and the scene active
\* when it began.
\* t is the playback time the step takes.
Emit(ev, last, t) ==
  /\ log' = Append(log, [a |-> ai, ev |-> ev, first |-> (pc = "dispatch"),
                         last |-> last, scene |-> activeScene])
  /\ clock' = clock + t
  /\ began' = IF pc = "dispatch" THEN clock ELSE began

\* A yield inside an action: stay on the action, suspend at `next`.
Continue(ev, next, t) == pc' = next /\ ai' = ai /\ Emit(ev, FALSE, t)

\* `break`: the action is over, the loop takes the next one.
Complete(ev, t) == pc' = "dispatch" /\ ai' = Advance(ai) /\ Emit(ev, TRUE, t)

Warn(msg) == diag' = Append(diag, [a |-> ai, msg |-> msg])

fixed == <<variant, storyboardData, storyboard, status, jitter, run, firstRun,
           geometry, renderPos, builder, sequencer>>

----------------------------------------------------------------------------
(* case 'cursor_move' *)

AfterAppear_pulseFirst == "cm_pulse"

AfterAppear_repromote ==
  CASE variant = "Hybrid" /\ Len(children) > 0 -> "cm_promote"
    [] variant = "Canvas" /\ targetNode # 0 -> "cm_glow"
    [] OTHER -> "cm_move"

AfterAppear_neverPromote ==
  CASE variant = "Canvas" /\ targetNode # 0 -> "cm_glow"
    [] OTHER -> "cm_move"

\* Where cursor_move goes after the highlight appeared.
AfterAppear ==
  CASE variant = "Hybrid" /\ ~useExtractedElements /\ Len(children) > 0 -> "cm_promote"
    [] variant = "Hybrid" /\ useExtractedElements /\ targetNode # 0 -> "cm_glow"
    [] variant = "Canvas" /\ targetNode # 0 -> "cm_glow"
    [] OTHER -> "cm_move"

CursorMoveMiss ==
  /\ Running /\ pc = "dispatch" /\ action.type = "cursor_move"
  /\ targetElement = Undefined
  /\ Warn("Element not found")
  /\ Complete("miss", 0)
  /\ UNCHANGED <<fixed, charDelay, loopBegan, activeScene, visuals, useExtractedElements, currentPos, i>>

\* highlightBox placed on the target, then yield* opacity(0.6, 0.3)
CursorMoveAppear ==
  /\ Running /\ pc = "dispatch" /\ action.type = "cursor_move"
  /\ targetElement # Undefined
  /\ highlightBox' = [highlightBox EXCEPT
                        !.pos = targetPos,
                        !.width = Px(targetElement[1].coordinates.width),
                        !.height = Px(targetElement[1].coordinates.height),
                        !.opacity = 60]
  /\ Continue("highlight_appear", AfterAppear, Ms(300))
  /\ UNCHANGED <<fixed, charDelay, loopBegan, activeScene, cursorPointer, cursorClickRipple, typingText,
                 children, layerOpacity, useExtractedElements, currentPos, i, diag>>

\* HybridScene: cross-fade screenshot -> extracted elements, once.
CursorMovePromote ==
  /\ Running /\ pc = "cm_promote"
  /\ layerOpacity' = [screenshot |-> 0, container |-> 100]
  /\ useExtractedElements' = TRUE
  /\ Continue("promote", IF targetNode # 0 THEN "cm_glow" ELSE "cm_move", Ms(1000))
  /\ UNCHANGED <<fixed, charDelay, loopBegan, activeScene, cursorPointer, highlightBox, cursorClickRipple,
                 typingText, children, currentPos, i, diag>>

\* all(targetNode.shadowBlur(8), targetNode.shadowColor(highlightColor))
CursorMoveGlow ==
  /\ Running /\ pc = "cm_glow"
  /\ children' = [children EXCEPT ![targetNode].shadowBlur = Px(8),
                                  ![targetNode].shadowColor = highlightColor]
  /\ Continue("glow", "cm_move", Ms(300))
  /\ UNCHANGED <<fixed, charDelay, loopBegan, activeScene, cursorPointer, highlightBox, cursorClickRipple,
                 typingText, layerOpacity, useExtractedElements, currentPos, i, diag>>

\* yield* cursorPointer().position(targetPos, action.duration)
CursorMoveMotion ==
  /\ Running /\ pc = "cm_move"
  /\ cursorPointer' = [cursorPointer EXCEPT !.pos = targetPos]
  /\ Continue("cursor_motion", "cm_pulse", Ms(action.duration))
  /\ UNCHANGED <<fixed, charDelay, loopBegan, activeScene, highlightBox, cursorClickRipple, typingText,
                 children, layerOpacity, useExtractedElements, currentPos, i, diag>>

\* all(opacity(0.8, 0.2), opacity(0.4, 0.2)): both tweens write the same signal
\* every frame, the second one last; the value left behind is 0.4.
CursorMovePulse ==
  /\ Running /\ pc = "cm_pulse"
  /\ highlightBox' = [highlightBox EXCEPT !.opacity = 40]
  /\ Complete("pulse", Ms(200))
  /\ UNCHANGED <<fixed, charDelay, loopBegan, activeScene, cursorPointer, cursorClickRipple, typingText,
                 children, layerOpacity, useExtractedElements, currentPos, i, diag>>

CursorMove ==
  \/ CursorMoveMiss \/ CursorMoveAppear \/ CursorMovePromote
  \/ CursorMoveGlow \/ CursorMoveMotion \/ CursorMovePulse

----------------------------------------------------------------------------
(* case 'click' *)

\* CanvasScene and MasterScene warn on a missing target, HybridScene only breaks.
ClickMiss ==
  /\ Running /\ pc = "dispatch" /\ action.type = "click"
  /\ targetElement = Undefined
  /\ IF variant = "Hybrid" THEN UNCHANGED diag ELSE Warn("Element not found for click")
  /\ Complete("miss", 0)
  /\ UNCHANGED <<fixed, charDelay, loopBegan, activeScene, visuals, useExtractedElements, currentPos, i>>

\* Whether the press animates the target node.
PressesNode ==
  \/ variant = "Canvas" /\ targetNode # 0
  \/ variant = "Hybrid" /\ useExtractedElements /\ targetNode # 0

\* cursorPointer().scale(0.95, 0.1): the pressed scale.
PressScale == 95

ReleaseScale_pressed == PressScale

\* The scale cursorPointer().scale(1, 0.15) returns the cursor to.
ReleaseScale == 100

AfterPress_releaseFirst == "ck_release"

\* Where click goes after the cursor press: the node press if there is one,
\* else the ripple.
AfterPress == IF PressesNode THEN "ck_node" ELSE "ck_ripple"

\* all(position(currentPos + (0,3), 0.1), scale(0.95, 0.1))
ClickPress ==
  /\ Running /\ pc = "dispatch" /\ action.type = "click"
  /\ targetElement # Undefined
  /\ currentPos' = cursorPointer.pos
  /\ cursorPointer' = [cursorPointer EXCEPT !.pos.y = @ + Px(3), !.scale = PressScale]
  /\ Continue("press", AfterPress, Ms(100))
  /\ UNCHANGED <<fixed, charDelay, loopBegan, activeScene, highlightBox, cursorClickRipple, typingText,
                 children, layerOpacity, useExtractedElements, i, diag>>

\* all(targetNode.scale(0.95, 0.1), targetNode.opacity(0.8, 0.1))
ClickNodePress ==
  /\ Running /\ pc = "ck_node"
  /\ children' = [children EXCEPT ![targetNode].scale = 95, ![targetNode].opacity = 80]
  /\ Continue("node_press", "ck_ripple", Ms(100))
  /\ UNCHANGED <<fixed, charDelay, loopBegan, activeScene, cursorPointer, highlightBox, cursorClickRipple,
                 typingText, layerOpacity, useExtractedElements, currentPos, i, diag>>

\* ripple placed at currentPos with size 40 and opacity 1, then
\* all(size(80, 0.4), opacity(0, 0.4))
ClickRipple ==
  /\ Running /\ pc = "ck_ripple"
  /\ cursorClickRipple' = [cursorClickRipple EXCEPT
                             !.pos = currentPos, !.size = Px(80), !.opacity = 0]
  /\ Continue("ripple", "ck_release", Ms(400))
  /\ UNCHANGED <<fixed, charDelay, loopBegan, activeScene, cursorPointer, highlightBox, typingText,
                 children, layerOpacity, useExtractedElements, currentPos, i, diag>>

\* all(position(currentPos, 0.15), scale(1, 0.15), node scale(1), node opacity(1))
ClickRelease ==
  /\ Running /\ pc = "ck_release"
  /\ cursorPointer' = [cursorPointer EXCEPT !.pos = currentPos, !.scale = ReleaseScale]
  /\ children' = IF targetNode # 0
                 THEN [children EXCEPT ![targetNode].scale = 100,
                                       ![targetNode].opacity = 100]
                 ELSE children
  /\ Continue("release", "ck_fade", Ms(150))
  /\ UNCHANGED <<fixed, charDelay, loopBegan, activeScene, highlightBox, cursorClickRipple, typingText,
                 layerOpacity, useExtractedElements, currentPos, i, diag>>

\* all(highlightBox().opacity(0, 0.3), node shadowBlur(0, 0.3)); MasterScene
\* fades the highlight only.
ClickFade ==
  /\ Running /\ pc = "ck_fade"
  /\ highlightBox' = [highlightBox EXCEPT !.opacity = 0]
  /\ children' = IF targetNode # 0
                 THEN [children EXCEPT ![targetNode].shadowBlur = 0]
                 ELSE children
  /\ Complete("highlight_fade", Ms(300))
  /\ UNCHANGED <<fixed, charDelay, loopBegan, activeScene, cursorPointer, cursorClickRipple, typingText,
                 layerOpacity, useExtractedElements, currentPos, i, diag>>

Click ==
  \/ ClickMiss \/ ClickPress \/ ClickNodePress \/ ClickRipple
  \/ ClickRelease \/ ClickFade

----------------------------------------------------------------------------
(* case 'type' *)

\* if (!action.payload): CanvasScene and MasterScene warn, HybridScene breaks.
TypeNoPayload ==
  /\ Running /\ pc = "dispatch" /\ action.type = "type"
  /\ ~Truthy(action.payload)
  /\ IF variant = "Hybrid" THEN UNCHANGED diag ELSE Warn("No payload for type action")
  /\ Complete("no_payload", 0)
  /\ UNCHANGED <<fixed, charDelay, loopBegan, activeScene, visuals, useExtractedElements, currentPos, i>>

\* if (!targetElement): CanvasScene warns, HybridScene breaks silently;
\* MasterScene has no such check.
TypeMiss ==
  /\ Running /\ pc = "dispatch" /\ action.type = "type"
  /\ Truthy(action.payload)
  /\ variant # "Master"
  /\ targetElement = Undefined
  /\ IF variant = "Hybrid" THEN UNCHANGED diag
     ELSE Warn("Target element not found for typing")
  /\ Complete("miss", 0)
  /\ UNCHANGED <<fixed, charDelay, loopBegan, activeScene, visuals, useExtractedElements, currentPos, i>>

\* Where the typing text is put: inside the element at its left edge plus 12
\* (CanvasScene, HybridScene), or 50 above the cursor (MasterScene).
TextAnchor ==
  IF variant = "Master"
  THEN [x |-> cursorPointer.pos.x, y |-> cursorPointer.pos.y - Px(50)]
  ELSE LET inputPos == getElementCanvasPosition(targetElement[1])
       IN  [x |-> inputPos.x - targetElement[1].coordinates.width + Px(12),
            y |-> inputPos.y]

\* Math.min(16, height * 0.5), in half pixels.
TextFontSize ==
  IF variant = "Master" THEN typingText.fontSize
  ELSE LET h == targetElement[1].coordinates.height
       IN  IF h < Px(16) THEN h ELSE Px(16)

\* Whether type glows and un-glows the target node.
GlowsNode ==
  \/ variant = "Canvas" /\ targetNode # 0
  \/ variant = "Hybrid" /\ useExtractedElements /\ targetNode # 0

substring_offByOne(text, n) == SubSeq(text, 1, n - 1)

\* text.substring(0, n)
substring(text, n) == SubSeq(text, 1, n)

\* typingText placed, shown and emptied; then the focus glow if there is a node.
TypeBegin ==
  /\ Running /\ pc = "dispatch" /\ action.type = "type"
  /\ Truthy(action.payload)
  /\ variant # "Master" => targetElement # Undefined
  /\ typingText' = [pos |-> TextAnchor, text |-> "", opacity |-> 100,
                    fontSize |-> TextFontSize]
  /\ children' = IF GlowsNode
                 THEN [children EXCEPT ![targetNode].shadowBlur = Px(12),
                                       ![targetNode].shadowColor = highlightColor]
                 ELSE children
  /\ currentPos' = cursorPointer.pos
  /\ i' = 0
  /\ Continue("type_begin", "ty_char", IF GlowsNode THEN Ms(300) ELSE 0)
  /\ loopBegan' = clock'
  /\ UNCHANGED <<fixed, charDelay, activeScene, cursorPointer, highlightBox, cursorClickRipple,
                 layerOpacity, useExtractedElements, diag>>

\* const baseDelay = action.duration / text.length;
\* const charDelay = baseDelay * (0.8 + Math.random() * 0.4), in ticks.
CharDelayOf_unscaled(factor) == (Ms(action.duration) * factor) \div 100

CharDelayOf(factor) ==
  (Ms(action.duration) * factor) \div (100 * Len(action.payload[1]))

\* One loop iteration: reveal one more character, then bob down (i % 3 === 0)
\* or wait for charDelay.
TypeChar ==
  /\ Running /\ pc = "ty_char"
  /\ i < Len(action.payload[1])
  /\ \E factor \in jitter : charDelay' = CharDelayOf(factor)
  /\ typingText' = [typingText EXCEPT !.text = substring(action.payload[1], i + 1)]
  /\ currentPos' = IF variant = "Master" THEN currentPos ELSE cursorPointer.pos
  /\ IF i % 3 = 0
     THEN /\ cursorPointer' = [cursorPointer EXCEPT
                                 !.pos = [x |-> currentPos'.x, y |-> currentPos'.y + Px(2)]]
          /\ i' = i
          /\ Continue("char_bob", "ty_bob", charDelay' \div 2)
     ELSE /\ cursorPointer' = cursorPointer
          /\ i' = i + 1
          /\ Continue("char", "ty_char", charDelay')
  /\ UNCHANGED <<fixed, loopBegan, activeScene, highlightBox, cursorClickRipple, children,
                 layerOpacity, useExtractedElements, diag>>

BobBackPos_stays == cursorPointer.pos

\* Where the second half of the bob takes the cursor: the position read
\* before the bob.
BobBackPos == currentPos

\* yield* cursorPointer().position(currentPos, charDelay / 2)
TypeBobBack ==
  /\ Running /\ pc = "ty_bob"
  /\ cursorPointer' = [cursorPointer EXCEPT !.pos = BobBackPos]
  /\ i' = i + 1
  /\ Continue("bob_back", "ty_char", charDelay \div 2)
  /\ UNCHANGED <<fixed, charDelay, loopBegan, activeScene, highlightBox, cursorClickRipple, typingText,
                 children, layerOpacity, useExtractedElements, currentPos, diag>>

\* What follows the loop: the un-glow (0.4 s) if the node glows, then
\* waitFor(0.5); in MasterScene the 0.4 s fade of the typing text.
TypeEndTime ==
  IF variant = "Master" THEN Ms(400)
  ELSE (IF GlowsNode THEN Ms(400) ELSE 0) + Ms(500)

\* After the loop: remove the glow and waitFor(0.5); MasterScene instead fades
\* the typing text out.
TypeEnd ==
  /\ Running /\ pc = "ty_char"
  /\ i >= Len(action.payload[1])
  /\ children' = IF GlowsNode
                 THEN [children EXCEPT ![targetNode].shadowBlur = 0]
                 ELSE children
  /\ typingText' = IF variant = "Master"
                   THEN [typingText EXCEPT !.opacity = 0]
                   ELSE typingText
  /\ i' = 0
  /\ Complete("type_end", TypeEndTime)
  /\ UNCHANGED <<fixed, charDelay, loopBegan, activeScene, cursorPointer, highlightBox, cursorClickRipple,
                 layerOpacity, useExtractedElements, currentPos, diag>>

Type == TypeNoPayload \/ TypeMiss \/ TypeBegin \/ TypeChar \/ TypeBobBack \/ TypeEnd

----------------------------------------------------------------------------
(* case 'switch_scene' (CanvasScene and MasterScene only) *)

findScene_fallback(payload) ==
  LET hits == {k \in 1..Len(storyboard.scenes) : storyboard.scenes[k].sceneId = payload}
  IN  IF hits = {} THEN 1 ELSE First(hits)

\* storyboard.scenes.find(s => s.sceneId === payload): index of the scene, 0 if none.
findScene(payload) ==
  LET hits == {k \in 1..Len(storyboard.scenes) : storyboard.scenes[k].sceneId = payload}
  IN  IF hits = {} THEN 0 ELSE First(hits)

SwitchNoPayload ==
  /\ Running /\ pc = "dispatch" /\ action.type = "switch_scene"
  /\ variant # "Hybrid"
  /\ ~Truthy(action.payload)
  /\ Warn("No payload (sceneId) for switch_scene action")
  /\ Complete("no_payload", 0)
  /\ UNCHANGED <<fixed, charDelay, loopBegan, activeScene, visuals, useExtractedElements, currentPos, i>>

SwitchNotFound ==
  /\ Running /\ pc = "dispatch" /\ action.type = "switch_scene"
  /\ variant # "Hybrid"
  /\ Truthy(action.payload)
  /\ findScene(action.payload[1]) = 0
  /\ Warn("Scene not found")
  /\ Complete("scene_not_found", 0)
  /\ UNCHANGED <<fixed, charDelay, loopBegan, activeScene, visuals, useExtractedElements, currentPos, i>>

\* all(layer.opacity(0, d/2), cursorPointer().opacity(0, d/2), highlightBox().opacity(0, d/2))
SwitchFadeOut ==
  /\ Running /\ pc = "dispatch" /\ action.type = "switch_scene"
  /\ variant # "Hybrid"
  /\ Truthy(action.payload)
  /\ findScene(action.payload[1]) # 0
  /\ layerOpacity' = IF variant = "Canvas"
                     THEN [layerOpacity EXCEPT !.container = 0]
                     ELSE [layerOpacity EXCEPT !.screenshot = 0]
  /\ cursorPointer' = [cursorPointer EXCEPT !.opacity = 0]
  /\ highlightBox' = [highlightBox EXCEPT !.opacity = 0]
  /\ Continue("fade_out", "sw_in", Ms(action.duration) \div 2)
  /\ UNCHANGED <<fixed, charDelay, loopBegan, activeScene, cursorClickRipple, typingText, children,
                 useExtractedElements, currentPos, i, diag>>

FadeInOpacity_skipped == cursorPointer.opacity

\* The opacity the fade-in tweens end at: opacity(1, action.duration / 2).
FadeInOpacity == 100

\* activeScene = nextScene, nodes rebuilt, strokes updated, then
\* all(layer.opacity(1, d/2), cursorPointer().opacity(1, d/2))
SwitchFadeIn ==
  /\ Running /\ pc = "sw_in"
  /\ LET next == findScene(action.payload[1])
         cs == storyboard.scenes[next].colorScheme
     IN  /\ activeScene' = next
         /\ children' = BuildChildren(variant, storyboard.scenes[next])
         /\ cursorPointer' = [cursorPointer EXCEPT !.stroke = CursorColorOf(cs),
                                                   !.opacity = FadeInOpacity]
         /\ highlightBox' = [highlightBox EXCEPT !.stroke = HighlightColorOf(cs)]
         /\ cursorClickRipple' = [cursorClickRipple EXCEPT !.stroke = HighlightColorOf(cs)]
  /\ layerOpacity' = IF variant = "Canvas"
                     THEN [layerOpacity EXCEPT !.container = FadeInOpacity]
                     ELSE [layerOpacity EXCEPT !.screenshot = FadeInOpacity]
  /\ Complete("fade_in", Ms(action.duration) \div 2)
  /\ UNCHANGED <<fixed, charDelay, loopBegan, typingText, useExtractedElements, currentPos, i, diag>>

SwitchScene == SwitchNoPayload \/ SwitchNotFound \/ SwitchFadeOut \/ SwitchFadeIn

----------------------------------------------------------------------------
(* case 'wait', default, and the end of the generator *)

WaitDuration_half == action.duration \div 2

\* yield* waitFor(action.duration)
WaitDuration == action.duration

Wait ==
  /\ Running /\ pc = "dispatch" /\ action.type = "wait"
  /\ Complete("wait", Ms(WaitDuration))
  /\ UNCHANGED <<fixed, charDelay, loopBegan, activeScene, visuals, useExtractedElements, currentPos, i, diag>>

\* The cases each generator's switch has; anything else reaches `default`.
Cases ==
  IF variant = "Hybrid" THEN {"cursor_move", "click", "type", "wait"} ELSE ActionTypes

UnknownAction ==
  /\ Running /\ pc = "dispatch" /\ action.type \notin Cases
  /\ Warn("Unknown action type")
  /\ Complete("unknown", 0)
  /\ UNCHANGED <<fixed, charDelay, loopBegan, activeScene, visuals, useExtractedElements, currentPos, i>>

FinalOpacity_kept == highlightBox.opacity

\* The opacity highlightBox().opacity(0, 0.5) fades the highlight to.
FinalOpacity == 0

\* After the loop: yield* highlightBox().opacity(0, 0.5)
FinalFade ==
  /\ status = "running" /\ ai > Len(storyboard.actions) /\ pc = "dispatch"
  /\ highlightBox' = [highlightBox EXCEPT !.opacity = FinalOpacity]
  /\ pc' = "hold"
  /\ clock' = clock + Ms(500)
  /\ UNCHANGED <<fixed, charDelay, began, loopBegan, ai, activeScene, cursorPointer, cursorClickRipple,
                 typingText, children, layerOpacity, useExtractedElements,
                 currentPos, i, diag, log>>

\* yield* waitFor(1), then the generator returns.
Hold ==
  /\ status = "running" /\ pc = "hold"
  /\ status' = "finished"
  /\ pc' = "done"
  /\ clock' = clock + Ms(1000)
  /\ UNCHANGED <<builder, sequencer, variant, storyboardData, storyboard, ai, activeScene, visuals,
                 useExtractedElements, currentPos, i, charDelay, began, loopBegan, jitter, diag, log,
                 run, firstRun, geometry, renderPos>>

Next ==
  \/ ParseRejected \/ NoScenes \/ Start
  \/ CursorMove \/ Click \/ Type \/ Wait \/ SwitchScene \/ UnknownAction
  \/ FinalFade \/ Hold

Spec == Init /\ [][Next]_vars

----------------------------------------------------------------------------
(* Playback with the random source free: every factor for every character. *)

InitTimed == InitOn(ShortStoryboards, JitterFactors, {NoGeometry})

SpecTimed == InitTimed /\ [][Next]_vars

\* The player steps the generator on every frame: a suspended generator is
\* always resumed.
InitLive == InitOn(ShortStoryboards, {NominalJitter}, {NoGeometry})

\* Where the generator stands: every step of Next changes it.
position == <<status, ai, pc, i, log>>

SpecLive == InitLive /\ [][Next]_vars /\ WF_position(Next)

----------------------------------------------------------------------------
(* A second playback of the same storyboard: the generator is run again    *)
(* from the start, the random source drawing afresh.                       *)

Replay ==
  /\ status = "finished" /\ run = 1
  /\ run' = 2
  /\ firstRun' = log
  /\ storyboard' = storyboardData
  /\ status' = "idle"
  /\ ai' = 1
  /\ pc' = "dispatch"
  /\ activeScene' = 1
  /\ cursorPointer' = InitialCursor
  /\ highlightBox' = InitialHighlight
  /\ cursorClickRipple' = InitialRipple
  /\ typingText' = InitialText
  /\ children' = <<>>
  /\ layerOpacity' = [screenshot |-> 100, container |-> 100]
  /\ useExtractedElements' = FALSE
  /\ currentPos' = Origin
  /\ i' = 0
  /\ charDelay' = 0
  /\ clock' = 0
  /\ began' = 0
  /\ loopBegan' = 0
  /\ diag' = <<>>
  /\ log' = <<>>
  /\ UNCHANGED <<builder, sequencer, variant, storyboardData, jitter, geometry, renderPos>>

NextReplay == Next \/ Replay

InitReplay == InitOn(ShortStoryboards, JitterExtremes, {NoGeometry})

SpecReplay == InitReplay /\ [][NextReplay]_vars

----------------------------------------------------------------------------
(* toCanvasCoords on its own: called once on a rectangle.                  *)

InitCoords ==
  /\ InitOn({[scenes |-> <<>>, actions |-> <<>>]}, {NominalJitter}, Geometries)
  /\ variant = "Canvas"

Convert ==
  /\ renderPos = Undefined
  /\ renderPos' = Some(toCanvasCoords(geometry.x, geometry.y, geometry.width,
                                      geometry.height))
  /\ UNCHANGED <<builder, sequencer, variant, storyboardData, storyboard, status, ai, pc, activeScene,
                 visuals, useExtractedElements, currentPos, i, charDelay, clock,
                 began, loopBegan, jitter, diag, log, run, firstRun, geometry>>

NextCoords == Convert

SpecCoords == InitCoords /\ [][NextCoords]_vars

----------------------------------------------------------------------------
(* Playback over scenes of every colour scheme. *)

InitTheme == InitOn(ThemeStoryboards, {NominalJitter}, {NoGeometry})

SpecTheme == InitTheme /\ [][Next]_vars

----------------------------------------------------------------------------
(* StoryboardSchema.parse on its own: the files of SchemaStoryboards are
   parsed and the generator is not resumed. *)

InitSchema == InitOn(SchemaStoryboards, {NominalJitter}, {NoGeometry})

NextSchema == ParseRejected \/ NoScenes \/ Start

SpecSchema == InitSchema /\ [][NextSchema]_vars

----------------------------------------------------------------------------
(* CompositionBuilder (core/layerSystem.ts): Layer objects are created by   *)
(* the caller, handed to addLayer by reference, and build() is called any   *)
(* number of times.                                                         *)

\* What the interpreter's generator owns.
playback == <<ai, pc, activeScene, visuals, useExtractedElements, currentPos, i,
              charDelay, clock, began, loopBegan, diag, log>>

\* The Layer objects the caller holds and the index a factory may give one.
LayerObjects == {"imageLayer", "textLayer"}
CarriedIndices == {0, 7}

\* addAsset arguments: one id registered as an image or as an svg.
AssetInputs ==
  {[id |-> "logo", type |-> "image", path |-> "logo.png"],
   [id |-> "logo", type |-> "svg", path |-> "logo.svg"]}

\* The array this.layers and the object this.assets, as references.
LayersArray == "this.layers"
AssetsObject == "this.assets"

\* What a reference points at now.
Deref(ref) == IF ref = LayersArray THEN builder.layers ELSE builder.assets

\* An array of Layer references read out: each object with its index field.
LayerValues(arr, index) ==
  [k \in 1..Len(arr) |-> [object |-> arr[k], index |-> index[arr[k]]]]

\* Array.prototype.sort((a, b) => key(a) - key(b)): ascending and stable;
\* keys[k] is the key of s[k].
StableSort(s, keys) ==
  LET rank(j) == 1 + Cardinality({h \in 1..Len(s) :
                                    keys[h] < keys[j] \/ (keys[h] = keys[j] /\ h < j)})
  IN  [k \in 1..Len(s) |-> s[CHOOSE j \in 1..Len(s) : rank(j) = k]]

BuilderOnly ==
  UNCHANGED <<variant, storyboardData, storyboard, status, jitter, run, firstRun,
              geometry, renderPos, playback, sequencer>>

\* createImageLayer(id, name, assetId, index) and the like: a new Layer
\* object carrying the index it was given.
CreateLayer ==
  /\ \E o \in LayerObjects \ DOMAIN builder.index : \E c \in CarriedIndices :
       builder' = [builder EXCEPT
                     !.index = [x \in DOMAIN builder.index \cup {o} |->
                                  IF x = o THEN c ELSE builder.index[x]]]
  /\ BuilderOnly

\* layer.index = this.nextIndex++; this.layers.push(layer)
addLayer ==
  /\ Len(builder.calls) < MaxCalls
  /\ \E o \in DOMAIN builder.index :
       builder' = [builder EXCEPT
                     !.index[o] = builder.nextIndex,
                     !.nextIndex = @ + 1,
                     !.layers = Append(@, o),
                     !.calls = Append(@, [op |-> "addLayer", arg |-> o])]
  /\ BuilderOnly

\* this.assets[id] = { id, type, path }
addAsset ==
  /\ Len(builder.calls) < MaxCalls
  /\ \E a \in AssetInputs :
       builder' = [builder EXCEPT
                     !.assets = [x \in DOMAIN builder.assets \cup {a.id} |->
                                   IF x = a.id THEN a ELSE builder.assets[x]],
                     !.calls = Append(@, [op |-> "addAsset", arg |-> a.id])]
  /\ BuilderOnly

\* build(): this.layers.sort(...) sorts the array in place and returns that
\* same array; the object returned holds it and this.assets by reference.
\* `was` keeps what the two held when build() returned, `at` the number of
\* the call.
build ==
  /\ Len(builder.calls) < MaxCalls
  /\ LET sorted == StableSort(builder.layers,
                              [k \in 1..Len(builder.layers) |-> builder.index[builder.layers[k]]])
     IN  builder' = [builder EXCEPT
                       !.layers = sorted,
                       !.returned = Append(@, [layers |-> LayersArray,
                                               assets |-> AssetsObject,
                                               was |-> [layers |-> LayerValues(sorted, builder.index),
                                                        assets |-> builder.assets],
                                               at |-> Len(builder.calls) + 1]),
                       !.calls = Append(@, [op |-> "build", arg |-> ""])]
  /\ BuilderOnly

InitBuilder ==
  /\ InitOn({[scenes |-> <<>>, actions |-> <<>>]}, {NominalJitter}, {NoGeometry})
  /\ variant = "Canvas"

NextBuilder == CreateLayer \/ addLayer \/ addAsset \/ build

SpecBuilder == InitBuilder /\ [][NextBuilder]_vars

----------------------------------------------------------------------------
(* SVGAnimationSequencer: animations are put on the timeline and the       *)
(* timeline's duration is asked for.  Times are in milliseconds.           *)

\* addAnimation arguments: early and late starts, short and long durations.
AnimationInputs ==
  [partId : {"G"}, preset : {"fadeIn"}, startTime : {0, 1000, 2000},
   duration : {500, 3000}]

SequencerOnly ==
  UNCHANGED <<variant, storyboardData, storyboard, status, jitter, run, firstRun,
              geometry, renderPos, playback, builder>>

\* this.timeline.push({...}); this.timeline.sort((a, b) => a.startTime - b.startTime)
addAnimation ==
  /\ Len(sequencer.timeline) < MaxAnimations
  /\ \E anim \in AnimationInputs :
       LET pushed == Append(sequencer.timeline, anim)
       IN  sequencer' = [timeline |-> StableSort(pushed, [k \in 1..Len(pushed) |->
                                                           pushed[k].startTime]),
                         asked |-> Undefined]
  /\ SequencerOnly

\* if (this.timeline.length === 0) return 0;
\* return last.startTime + last.duration, last being the final entry.
getDuration ==
  /\ sequencer.asked = Undefined
  /\ LET n == Len(sequencer.timeline)
     IN  sequencer' = [sequencer EXCEPT
                         !.asked = Some(IF n = 0 THEN 0
                                        ELSE sequencer.timeline[n].startTime
                                             + sequencer.timeline[n].duration)]
  /\ SequencerOnly

InitSequencer ==
  /\ InitOn({[scenes |-> <<>>, actions |-> <<>>]}, {NominalJitter}, {NoGeometry})
  /\ variant = "Canvas"

NextSequencer == addAnimation \/ getDuration

SpecSequencer == InitSequencer /\ [][NextSequencer]_vars
----------------------------------------------------------------------------
(* Properties. *)

LastLog == log[Len(log)]
ActionOf(k) == storyboard.actions[log[k].a]

\* The ids of the elements of a scene, and the scenes carrying a given id.
IdsOf(sc) == {sc.elements[k].id : k \in 1..Len(sc.elements)}
ScenesNamed(id) == {k \in 1..Len(storyboard.scenes) : storyboard.scenes[k].sceneId = id}

\* The element with a given id in the active scene (ids are unique in S1, S2).
ElementById(id) ==
  scene.elements[CHOOSE k \in 1..Len(scene.elements) : scene.elements[k].id = id]

\* The render-space centre of a rectangle, in half pixels.
CentreOf(e) ==
  [x |-> 2 * e.coordinates.x + e.coordinates.width - 1920,
   y |-> 2 * e.coordinates.y + e.coordinates.height - 1080]

\* An action at dispatch whose target id is not among the active scene's ids.
Unresolved(act) ==
  act.targetElementId = Undefined \/ act.targetElementId[1] \notin IdsOf(scene)

\* C1: the actions are dispatched in script order, one at a time: the steps
\* of one action are contiguous, an action's first step follows directly the
\* last step of the action before it, and at the end every action of the
\* list was dispatched exactly once.
C1_ScriptOrder ==
  /\ \A k \in 1..Len(log) : log[k].a \in 1..Len(storyboard.actions)
  /\ Len(log) > 0 => log[1].a = 1 /\ log[1].first
  /\ \A k \in 1..(Len(log) - 1) :
       IF log[k].last
       THEN log[k + 1].a = log[k].a + 1 /\ log[k + 1].first
       ELSE log[k + 1].a = log[k].a /\ ~log[k + 1].first
  /\ status = "finished" =>
       /\ {log[k].a : k \in 1..Len(log)} = 1..Len(storyboard.actions)
       /\ \A k \in 1..Len(log) : k = Len(log) => log[k].last

C1_Witness ==
  /\ status = "finished"
  /\ Len(storyboard.actions) >= 3
  /\ \A n \in 1..3 : \E k \in 1..Len(log) : log[k].a = n /\ ~log[k].first

\* C2: in every renderer variant, a cursor_move whose target resolves ends
\* with the cursor at the target's centre (x + width/2 - 960, y + height/2 - 540).
C2_CursorAtCentre ==
  (Len(log) > 0 /\ LastLog.ev = "pulse") =>
     cursorPointer.pos = CentreOf(ElementById(ActionOf(Len(log)).targetElementId[1]))

\* C3: in every renderer variant, a cursor_move, click or type whose target is
\* absent from the active scene changes nothing visible, emits exactly one
\* diagnostic, and the loop goes on to the next action.
C3_MissSkipsWithOneDiagnostic ==
  [][(/\ Running /\ pc = "dispatch"
      /\ action.type \in {"cursor_move", "click", "type"}
      /\ Unresolved(action))
     => /\ UNCHANGED visuals
        /\ Len(diag') = Len(diag) + 1
        /\ ai' = ai + 1 /\ pc' = "dispatch" /\ status' = "running"]_vars

\* C4: in every renderer variant, a switch_scene whose payload is the sceneId
\* of a scene of the storyboard makes that scene the active one, and the next
\* cursor_move or click resolves its target against that scene's elements only.
C4_SwitchActivatesScene ==
  \A k \in 1..Len(log) :
    (/\ log[k].last
     /\ ActionOf(k).type = "switch_scene"
     /\ ActionOf(k).payload # Undefined
     /\ ScenesNamed(ActionOf(k).payload[1]) # {})
    => LET s == First(ScenesNamed(ActionOf(k).payload[1])) IN
         /\ k = Len(log) => activeScene = s
         /\ (k < Len(log) /\ ActionOf(k + 1).type \in {"cursor_move", "click"}) =>
              (log[k + 1].ev = "miss" <=>
                 \/ ActionOf(k + 1).targetElementId = Undefined
                 \/ ActionOf(k + 1).targetElementId[1] \notin IdsOf(storyboard.scenes[s]))

\* C5: a switch_scene whose payload is missing or names no scene leaves the
\* active scene, the element nodes, every opacity and every stroke as they
\* were, emits exactly one diagnostic, and playback goes on.
C5_BadSwitchChangesNothing ==
  [][(/\ Running /\ pc = "dispatch" /\ action.type = "switch_scene"
      /\ (action.payload = Undefined \/ ScenesNamed(action.payload[1]) = {}))
     => /\ UNCHANGED <<activeScene, children, layerOpacity>>
        /\ cursorPointer'.opacity = cursorPointer.opacity
        /\ highlightBox'.opacity = highlightBox.opacity
        /\ cursorClickRipple'.opacity = cursorClickRipple.opacity
        /\ typingText'.opacity = typingText.opacity
        /\ cursorPointer'.stroke = cursorPointer.stroke
        /\ highlightBox'.stroke = highlightBox.stroke
        /\ cursorClickRipple'.stroke = cursorClickRipple.stroke
        /\ Len(diag') = Len(diag) + 1
        /\ ai' = ai + 1 /\ pc' = "dispatch" /\ status' = "running"]_vars

C5_Witness ==
  /\ status = "finished"
  /\ \E k \in 1..(Len(log) - 1) :
       /\ log[k].ev = "scene_not_found"
       /\ log[k + 1].ev = "highlight_appear"

\* Whether every reference of an action list resolves, walking the list with
\* the scene that is active at each point (sc is an index into scenes).
RECURSIVE RefsResolve(_, _, _)
RefsResolve(sb, k, sc) ==
  IF k > Len(sb.actions) THEN TRUE
  ELSE LET act == sb.actions[k]
           named == {n \in 1..Len(sb.scenes) : act.payload # Undefined
                                                /\ sb.scenes[n].sceneId = act.payload[1]}
       IN  CASE act.type \in {"cursor_move", "click", "type"} ->
                  /\ act.targetElementId # Undefined
                  /\ act.targetElementId[1] \in IdsOf(sb.scenes[sc])
                  /\ RefsResolve(sb, k + 1, sc)
             [] act.type = "switch_scene" ->
                  /\ named # {}
                  /\ RefsResolve(sb, k + 1, First(named))
             [] OTHER -> RefsResolve(sb, k + 1, sc)

\* C6: a storyboard with an action whose target does not resolve in the scene
\* active at that point, or a switch_scene naming no scene, is rejected by
\* validation: playback never starts on it.
C6_ValidationRejectsBadReferences ==
  (status \in {"running", "finished"}) => RefsResolve(storyboard, 1, 1)

\* C7: an action of a kind outside the five known ones never aborts the run:
\* it is skipped with one warning and every other action is still played.
C7_UnknownKindSkipped ==
  (storyboard.scenes # <<>>) =>
    /\ status # "rejected"
    /\ status = "finished" =>
         \A n \in 1..Len(storyboard.actions) :
           /\ \E k \in 1..Len(log) : log[k].a = n
           /\ storyboard.actions[n].type \notin ActionTypes =>
                Cardinality({d \in 1..Len(diag) : diag[d].a = n}) = 1

\* C8: within a cursor_move the highlight is placed and shown before the
\* cursor starts to move, and the arrival pulse starts only once the cursor
\* has reached the target.
C8_CursorMoveOrder ==
  /\ \A k \in 1..Len(log) :
       /\ log[k].ev = "cursor_motion" =>
            \E j \in 1..(k - 1) : log[j].a = log[k].a /\ log[j].ev = "highlight_appear"
       /\ log[k].ev = "pulse" =>
            /\ k > 1
            /\ log[k - 1].a = log[k].a /\ log[k - 1].ev = "cursor_motion"
       /\ (log[k].ev = "highlight_appear" /\ status = "finished") =>
            \E j \in (k + 1)..Len(log) : log[j].a = log[k].a /\ log[j].ev = "pulse"
  /\ (Running /\ pc \in {"cm_promote", "cm_glow", "cm_move"}) =>
       /\ highlightBox.opacity = 60
       /\ highlightBox.pos = targetPos
       /\ \A k \in 1..Len(log) : ~(log[k].a = ai /\ log[k].ev = "cursor_motion")
  /\ (Running /\ pc = "cm_pulse") =>
       /\ cursorPointer.pos = targetPos
       /\ highlightBox.opacity = 60

C8_Witness ==
  \E k \in 3..Len(log) :
    /\ log[k].ev = "pulse"
    /\ log[k - 2].ev = "glow"
    /\ variant = "Hybrid"

\* C9: the cursor's scale is 1 at every action boundary, so every click ends
\* with the scale it had just before its press; in between it is pressed.
C9_ClickRestoresScale ==
  /\ (status \in {"running", "finished"} /\ pc \in {"dispatch", "hold", "done"}) =>
       cursorPointer.scale = 100
  /\ (Running /\ pc \in {"ck_node", "ck_ripple", "ck_release"}) =>
       cursorPointer.scale = 95

C9_Witness ==
  /\ Len(log) > 0
  /\ LastLog.ev = "highlight_fade"
  /\ \E k \in 1..Len(log) : log[k].ev = "node_press"

\* C10: a type action starts from the empty text and reveals the payload one
\* character at a time: every change of the text inside the action appends
\* the payload's next character, and the action ends with the full payload.
C10_TypingPrefixes ==
  [][/\ (Running /\ pc = "dispatch" /\ pc' = "ty_char") => typingText'.text = ""
     /\ (Running /\ pc \in {"ty_char", "ty_bob"}) =>
          /\ \/ typingText'.text = typingText.text
             \/ typingText'.text = SubSeq(action.payload[1], 1, Len(typingText.text) + 1)
          /\ pc' = "dispatch" => typingText.text = action.payload[1]
          /\ Len(typingText.text) <= Len(action.payload[1])]_vars

C10_Witness ==
  /\ Len(log) > 0
  /\ LastLog.ev = "type_end"
  /\ typingText.text = TypedText
  /\ Cardinality({k \in 1..Len(log) : log[k].a = LastLog.a
                                       /\ log[k].ev \in {"char", "char_bob"}}) = MaxLen

----------------------------------------------------------------------------
(* Timing of `type`. *)

\* The type action whose last step was just taken.
TypeActionDone == log # <<>> /\ LastLog.ev = "type_end"

\* 100 * t is within [80, 120] percent of the share 1/n of a duration of d ms.
WithinJitter(t, d, n) == 80 * Ms(d) <= 100 * n * t /\ 100 * n * t <= 120 * Ms(d)

\* The delay drawn for the character being typed, once one was drawn.
DelayDrawn == Running /\ (pc = "ty_bob" \/ (pc = "ty_char" /\ i > 0))

\* C11 (as claimed): a type action with duration d and a non-empty payload
\* takes, from its dispatch to its end, between 0.8 * d and 1.2 * d, and each
\* per-character delay is d / length scaled by a factor in [0.8, 1.2].
C11_ActionWithinJitterBound ==
  /\ TypeActionDone =>
       WithinJitter(clock - began, storyboard.actions[LastLog.a].duration, 1)
  /\ DelayDrawn =>
       WithinJitter(charDelay, action.duration, Len(action.payload[1]))

\* C11 (amended): the typing loop of a type action with duration d >= 0 and a
\* non-empty payload takes between 0.8 * d and 1.2 * d, each per-character
\* delay being d / length scaled by a factor in [0.8, 1.2]; the action as a
\* whole lasts longer than its loop by its fixed phases, at least 0.4 s.
C11_LoopWithinJitterBound ==
  /\ (Running /\ pc = "ty_char" /\ i = Len(action.payload[1])) =>
       WithinJitter(clock - loopBegan, action.duration, 1)
  /\ DelayDrawn =>
       WithinJitter(charDelay, action.duration, Len(action.payload[1]))
  /\ TypeActionDone =>
       clock - began >= (80 * Ms(storyboard.actions[LastLog.a].duration)) \div 100 + Ms(400)

\* A loop that ran at the fastest factor throughout has just ended.
C11_Witness ==
  /\ Running /\ pc = "ty_char" /\ i = Len(action.payload[1])
  /\ i = MaxLen
  /\ 100 * (clock - loopBegan) = 80 * Ms(action.duration)

----------------------------------------------------------------------------
(* Where `type` puts its text. *)

\* Inside a rectangle, 12 px right of its left edge, on its centre line.
InsideLeft(e) ==
  [x |-> CentreOf(e).x - e.coordinates.width + 24, y |-> CentreOf(e).y]

\* C12: in every renderer variant, while a type action on a resolved element
\* E runs, the typing text sits at x = (centre x of E) - E.width / 2 + 12 and
\* y = (centre y of E), wherever the cursor is.
C12_TextInsideElement ==
  (Running /\ pc \in {"ty_char", "ty_bob"} /\ ~Unresolved(action)) =>
     typingText.pos = InsideLeft(ElementById(action.targetElementId[1]))

----------------------------------------------------------------------------
(* HybridScene's two layers. *)

\* The steps of the log that cross-faded the layers.
Promotions == {k \in 1..Len(log) : log[k].ev = "promote"}

\* Between two actions, or after the last one.
AtBoundary == status \in {"running", "finished"} /\ pc \in {"dispatch", "hold", "done"}

\* C13: in hybrid mode the screenshot layer starts at opacity 1 and the asset
\* layer at 0; the cross-fade happens at most once in a playback; once it has
\* happened the screenshot layer is at 0 and the asset layer at 1 at every
\* later action boundary; and the promoted flag never returns to false.
C13_PromotedOnceAndForGood ==
  /\ [](variant = "Hybrid" =>
          /\ (status = "running" /\ log = <<>>) =>
                layerOpacity = [screenshot |-> 100, container |-> 0]
          /\ Cardinality(Promotions) <= 1
          /\ (AtBoundary /\ Promotions = {}) =>
                (~useExtractedElements /\ layerOpacity = [screenshot |-> 100, container |-> 0])
          /\ (AtBoundary /\ Promotions # {}) =>
                (useExtractedElements /\ layerOpacity = [screenshot |-> 0, container |-> 100]))
  /\ [][useExtractedElements => useExtractedElements']_vars

\* Promoted by one cursor_move, and a later cursor_move has run to its end.
C13_Witness ==
  /\ variant = "Hybrid" /\ AtBoundary
  /\ layerOpacity = [screenshot |-> 0, container |-> 100]
  /\ \E k \in Promotions :
       /\ LastLog.a > log[k].a
       /\ LastLog.ev = "pulse"


\* The asset layer holds a node keyed by the action's target id.
HasAssetNode(act) ==
  /\ act.targetElementId # Undefined
  /\ \E j \in 1..Len(children) : children[j].key = act.targetElementId[1]

\* A cursor_move whose target resolves and has an asset-layer node.
MovesOntoAsset(act) ==
  act.type = "cursor_move" /\ ~Unresolved(act) /\ HasAssetNode(act)

\* C14: in hybrid mode the cross-fade is triggered by the first cursor_move
\* whose target resolves and has an asset-layer node, and by nothing else: the
\* action that promotes is such a cursor_move, no action before it is one, and
\* such a cursor_move never ends without the layers having been promoted.
C14_PromotedByFirstMoveOntoAsset ==
  (variant = "Hybrid" /\ status \in {"running", "finished"}) =>
     /\ \A k \in Promotions :
          /\ MovesOntoAsset(ActionOf(k))
          /\ \A a \in 1..(log[k].a - 1) : ~MovesOntoAsset(storyboard.actions[a])
     /\ \A k \in 1..Len(log) :
          (log[k].last /\ MovesOntoAsset(ActionOf(k))) => Promotions # {}

\* The third action promoted: an unresolved cursor_move and a click or a type
\* before it did not.
C14_Witness ==
  /\ variant = "Hybrid" /\ AtBoundary
  /\ \E k \in Promotions :
       /\ log[k].a = 3
       /\ storyboard.actions[1].type = "cursor_move"
       /\ storyboard.actions[2].type \in {"click", "type"}
       /\ \E j \in 1..Len(log) : log[j].a = 2 /\ log[j].ev \in {"press", "type_begin"}

----------------------------------------------------------------------------
(* Two playbacks of one storyboard. *)

SkipEvents == {"miss", "no_payload", "scene_not_found", "unknown"}

EndsAction(e) == e.last

\* The logical events of a log: for each action that ended, its kind, its
\* target, whether it was executed or skipped, and the scene then active.
LogicalEvents(l) ==
  LET ends == SelectSeq(l, EndsAction)
  IN  [k \in 1..Len(ends) |->
         [a |-> ends[k].a,
          kind |-> storyboard.actions[ends[k].a].type,
          target |-> storyboard.actions[ends[k].a].targetElementId,
          executed |-> ends[k].ev \notin SkipEvents,
          scene |-> ends[k].scene]]

IsPrefix(s, t) == Len(s) <= Len(t) /\ SubSeq(t, 1, Len(s)) = s

\* C16: two playbacks of the same storyboard yield the same ordered sequence
\* of logical events whatever factors the typing jitter takes in either: the
\* second playback's events are at every moment a prefix of the first's, and
\* equal to them when it has finished.
C16_ReplayYieldsSameEvents ==
  (run = 2 /\ status \in {"running", "finished"}) =>
     /\ IsPrefix(LogicalEvents(log), LogicalEvents(firstRun))
     /\ status = "finished" => LogicalEvents(log) = LogicalEvents(firstRun)

\* A replay of two actions has finished, its typing having ended on the
\* slowest factor.
C16_Witness ==
  /\ run = 2 /\ status = "finished"
  /\ Len(LogicalEvents(log)) = 2
  /\ \E k \in 1..Len(log) :
       /\ log[k].ev = "type_end"
       /\ 100 * Len(ActionOf(k).payload[1]) * charDelay = 119 * Ms(ActionOf(k).duration)

----------------------------------------------------------------------------
(* The end-to-end scenario. *)

\* C17: playing the one-scene storyboard whose element search_input is
\* {x: 745, y: 390, width: 600, height: 40} with the actions cursor_move
\* (1.0 s), click (0.2 s), type "Hello World" (2.0 s) ends with the cursor at
\* (85, -130), exactly one ripple, centred at (85, -130), and the typing text
\* reading "Hello World" anchored at (-203, -130).
C17_SearchScenario ==
  (storyboardData = SearchStoryboard /\ status = "finished") =>
     /\ cursorPointer.pos = [x |-> Px(85), y |-> -Px(130)]
     /\ Cardinality({k \in 1..Len(log) : log[k].ev = "ripple"}) = 1
     /\ cursorClickRipple.pos = [x |-> Px(85), y |-> -Px(130)]
     /\ typingText.text = "Hello World"
     /\ typingText.pos = [x |-> -Px(203), y |-> -Px(130)]

----------------------------------------------------------------------------
(* The coordinate conversion and its inverse. *)

\* C18: for every element geometry, converting it to render space and then
\* applying x = renderX - width / 2 + 960, y = renderY - height / 2 + 540
\* gives back the original x and y.
C18_RoundTrip ==
  renderPos # Undefined =>
     /\ renderPos[1].x - geometry.width + Px(960) = Px(geometry.x)
     /\ renderPos[1].y - geometry.height + Px(540) = Px(geometry.y)

\* An odd-sized rectangle away from the origin was converted.
C18_Witness ==
  /\ renderPos # Undefined
  /\ geometry = [x |-> 745, y |-> 390, width |-> 25, height |-> 33]
  /\ renderPos[1] = [x |-> 2 * 745 + 25 - 1920, y |-> 2 * 390 + 33 - 1080]

----------------------------------------------------------------------------
(* `wait`. *)

\* C19: a wait action advances the playback time by exactly its duration and
\* changes nothing else: no overlay, no node, no layer, not the active scene,
\* not the promoted flag, no diagnostic; the loop then takes the next action.
C19_WaitOnlyAdvancesTime ==
  [][(Running /\ pc = "dispatch" /\ action.type = "wait") =>
       /\ clock' = clock + Ms(action.duration)
       /\ UNCHANGED <<visuals, activeScene, useExtractedElements, diag, status>>
       /\ ai' = ai + 1 /\ pc' = "dispatch"]_vars

\* A wait has just ended while the highlight of an earlier cursor_move shows.
C19_Witness ==
  /\ Len(log) > 1
  /\ LastLog.ev = "wait"
  /\ highlightBox.opacity = 40
  /\ clock - began = Ms(1000)

----------------------------------------------------------------------------
(* Termination. *)

\* How many times action a was dispatched.
Dispatches(a) == Cardinality({k \in 1..Len(log) : log[k].a = a /\ log[k].first})

\* Every action of the list was dispatched exactly once, the highlight is
\* hidden, and the generator has returned.
FinishedCleanly ==
  /\ \A a \in 1..Len(storyboard.actions) : Dispatches(a) = 1
  /\ highlightBox.opacity = 0
  /\ pc = "done"

\* The last step of a playback is the 1 s hold, which changes nothing visible.
EndsWithHold ==
  [][(status # "finished" /\ status' = "finished") =>
       /\ pc = "hold" /\ highlightBox.opacity = 0
       /\ clock' = clock + Ms(1000)
       /\ UNCHANGED visuals]_vars

\* C20 (as claimed): every validated storyboard with a finite action list is
\* played to the finished state, each action having been dispatched exactly
\* once, ending with the highlight at opacity 0 followed by the fixed hold.
C20_ValidatedPlaybackFinishes ==
  /\ (status = "idle" /\ StoryboardSchemaOk(storyboardData)) ~> (status = "finished")
  /\ [](status = "finished" => FinishedCleanly)
  /\ EndsWithHold

\* C20 (amended): every validated storyboard with at least one scene and a
\* finite action list is played to the finished state, each action having
\* been dispatched exactly once, ending with the highlight at opacity 0
\* followed by the fixed hold.
C20_PlaybackWithScenesFinishes ==
  /\ (/\ status = "idle" /\ StoryboardSchemaOk(storyboardData)
      /\ storyboardData.scenes # <<>>) ~> (status = "finished")
  /\ (status = "running") ~> (status = "finished")
  /\ [](status = "finished" => FinishedCleanly)
  /\ EndsWithHold

\* A playback of a full list has finished with the highlight faded out from
\* the 0.4 a cursor_move left it at.
C20_Witness ==
  /\ status = "finished"
  /\ Len(storyboard.actions) = MaxShort
  /\ LastLog.ev = "pulse"
  /\ highlightBox.opacity = 0

----------------------------------------------------------------------------
(* Claims C21..C30. *)

\* The file passed StoryboardSchema.parse.
Accepted == status \in {"running", "error"}

\* The positions in scene sc at which an element with this id stands.
Matches(sc, id) == {k \in 1..Len(sc.elements) : sc.elements[k].id = id}

\* C21: every scene of an accepted storyboard has pairwise-distinct element
\* ids, so a lookup by id matches at most one element.
C21_AcceptedScenesHaveDistinctIds ==
  Accepted =>
    \A s \in 1..Len(storyboard.scenes) :
      \A id \in IdsOf(storyboard.scenes[s]) :
        Cardinality(Matches(storyboard.scenes[s], id)) <= 1

\* C22: every action of an accepted storyboard has a non-negative duration,
\* and an action given without a duration has duration 1.0.
C22_AcceptedDurations ==
  Accepted =>
    \A k \in 1..Len(storyboard.actions) :
      /\ storyboard.actions[k].duration >= 0
      /\ storyboardData.actions[k].duration = Undefined
           => storyboard.actions[k].duration = 1000


\* The log positions at which a switch_scene completed.
Switches == {k \in 1..Len(log) : log[k].ev = "fade_in"}

\* The scene the latest completed switch_scene named.
SwitchedTo ==
  LET k == CHOOSE j \in Switches : \A h \in Switches : h <= j
  IN  storyboard.scenes[First(ScenesNamed(ActionOf(k).payload[1]))]

ThemeStroke(sc) == IF sc.colorScheme.theme = "dark" THEN "#FFFFFF" ELSE "#000000"

C24_PulseRaisesThenLowers ==
  [][(/\ Running /\ action.type = "cursor_move"
      /\ highlightBox.opacity # 40 /\ highlightBox'.opacity = 40)
       => highlightBox.opacity = 80]_vars

ClickPhases == <<"press", "ripple", "release", "highlight_fade">>

\* The phases action a has run so far, in the order they ran.
PhasesOf(a) ==
  LET steps == SelectSeq(log, LAMBDA e : e.a = a /\ e.ev \in {"press", "ripple", "release",
                                                             "highlight_fade"})
  IN  [k \in 1..Len(steps) |-> steps[k].ev]

\* C25: the phases of every executed click run one after another in the order
\* press, ripple, release, highlight fade-out, and the click ends with the
\* ripple and the highlight at opacity 0.
C25_ClickPhasesInOrder ==
  status \in {"running", "finished"} =>
    /\ \A a \in 1..Len(storyboard.actions) :
         storyboard.actions[a].type = "click" => IsPrefix(PhasesOf(a), ClickPhases)
    /\ (log # <<>> /\ LastLog.ev = "highlight_fade") =>
         /\ PhasesOf(LastLog.a) = ClickPhases
         /\ cursorClickRipple.opacity = 0
         /\ highlightBox.opacity = 0

\* A click that followed a cursor_move (so the highlight was showing) is over.
C25_Witness ==
  /\ log # <<>>
  /\ LastLog.ev = "highlight_fade"
  /\ \E k \in 1..Len(log) : log[k].ev = "pulse"
  /\ PhasesOf(LastLog.a) = ClickPhases
  /\ highlightBox.opacity = 0

\* The nodes carrying the id the action targets.
NodesOf(act) ==
  IF act.targetElementId = Undefined THEN {}
  ELSE {k \in 1..Len(children) : children[k].key = act.targetElementId[1]}

\* C26: in a click on a target that has a node, the node's scale-down is part
\* of the cursor press: when the press is over the node is scaled down too.
C26_PressAndNodeScaleTogether ==
  (log # <<>> /\ LastLog.ev = "press") =>
    \A k \in NodesOf(ActionOf(Len(log))) : children[k].scale = 95

\* The action before the latest one was a cursor_move that ran to its pulse.
FollowsCursorMove ==
  /\ LastLog.a > 1
  /\ storyboard.actions[LastLog.a - 1].type = "cursor_move"
  /\ \E k \in 1..Len(log) : log[k].a = LastLog.a - 1 /\ log[k].ev = "pulse"

\* C27: a click without a targetElementId that follows a successful
\* cursor_move is executed, not skipped as a miss.
C27_ClickWithoutTargetExecuted ==
  (/\ log # <<>>
   /\ ActionOf(Len(log)).type = "click"
   /\ ActionOf(Len(log)).targetElementId = Undefined
   /\ FollowsCursorMove)
    => LastLog.ev # "miss"

\* C28: in HybridScene a click executed before promotion changes no
\* asset-layer node.
C28_ClickBeforePromotionKeepsNodes ==
  [][(/\ variant = "Hybrid" /\ Running /\ action.type = "click"
      /\ Promotions = {})
       => children' = children]_vars

\* C29: after a successful switch_scene to S, the glow colour cursor_move and
\* type set on the target node is S's highlight colour.
C29_GlowFollowsScene ==
  (/\ log # <<>>
   /\ Switches # {}
   /\ LastLog.ev \in {"glow", "type_begin"})
    => \A k \in NodesOf(ActionOf(Len(log))) :
         children[k].shadowColor =
           IF SwitchedTo.colorScheme.primary = "" THEN "#4285f4"
           ELSE SwitchedTo.colorScheme.primary

\* The opacity of the layer that shows the active scene.
VisibleLayerOpacity ==
  CASE variant = "Canvas" -> layerOpacity.container
    [] variant = "Master" -> layerOpacity.screenshot
    [] OTHER -> IF Promotions = {} THEN layerOpacity.screenshot
                ELSE layerOpacity.container

\* C30: at every action boundary the cursor and the visible layer are at
\* opacity 1, and a successful switch_scene ends with the highlight at 0.
C30_VisibleAtBoundaries ==
  (status \in {"running", "finished"} /\ (log = <<>> \/ LastLog.last)) =>
    /\ cursorPointer.opacity = 100
    /\ VisibleLayerOpacity = 100
    /\ (log # <<>> /\ LastLog.ev = "fade_in") => highlightBox.opacity = 0

\* A switch_scene that followed a cursor_move (highlight showing) is over.
C30_Witness ==
  /\ log # <<>>
  /\ LastLog.ev = "fade_in"
  /\ \E k \in 1..Len(log) : log[k].ev = "pulse"
  /\ cursorPointer.opacity = 100
  /\ VisibleLayerOpacity = 100
  /\ highlightBox.opacity = 0


----------------------------------------------------------------------------
(* Claims C31..C39. *)

\* How many steps of action a were the event ev.
CountOf(a, ev) == Cardinality({k \in 1..Len(log) : log[k].a = a /\ log[k].ev = ev})

\* The cursor position p moved down by d pixels.
Lowered(p, d) == [x |-> p.x, y |-> p.y + Px(d)]

\* What one step may do to the cursor position, by the event it logs.
CursorStep ==
  log' # log =>
    LET ev == log'[Len(log')].ev
        p == cursorPointer.pos
        q == cursorPointer'.pos
    IN  /\ ev = "press" => q = Lowered(p, 3)
        /\ ev = "release" => q = Lowered(p, 0 - 3)
        /\ ev = "char_bob" => q = Lowered(p, 2)
        /\ ev = "bob_back" => q = Lowered(p, 0 - 2)
        /\ ev \notin {"press", "release", "char_bob", "bob_back", "cursor_motion"} => q = p
        /\ ev \in {"char_bob", "char"} => (ev = "char_bob" <=> Len(typingText.text) % 3 = 0)
        /\ (log # <<>> /\ LastLog.ev = "char_bob") => ev = "bob_back"

\* At an action boundary every press has been released and every bob undone;
\* without any cursor motion the cursor is where it was built.
CursorRestored ==
  (status \in {"running", "finished"} /\ (log = <<>> \/ LastLog.last)) =>
    /\ \A a \in 1..Len(storyboard.actions) :
         /\ CountOf(a, "press") = CountOf(a, "release")
         /\ CountOf(a, "char_bob") = CountOf(a, "bob_back")
    /\ (\A k \in 1..Len(log) : log[k].ev # "cursor_motion")
         => cursorPointer.pos = [x |-> 0 - Px(960), y |-> 0 - Px(540)]

\* C31: every click and every type ends with the cursor where it was when the
\* action started (press offset 3 and bob offset 2 undone), the bob happens
\* exactly at the characters with index i mod 3 = 0, and only the motion of
\* cursor_move changes the cursor position across action boundaries.
C31_CursorRestoredAfterClickAndType ==
  [](CursorRestored) /\ [][CursorStep]_vars

\* A click and then a type with at least two bobs, no cursor_move: the cursor
\* is back where it was built.
C31_Witness ==
  /\ log # <<>>
  /\ LastLog.ev = "type_end"
  /\ \E k \in 1..Len(log) : log[k].ev = "release"
  /\ CountOf(LastLog.a, "bob_back") >= 2
  /\ cursorPointer.pos = [x |-> 0 - Px(960), y |-> 0 - Px(540)]


\* C32: on a validated storyboard without scenes the interpreter, in every
\* renderer, ends in the error 'No scenes found in storyboard' with no node
\* added to the view and no action dispatched.
C32_NoScenesRaisesBeforeAnything ==
  storyboardData.scenes = <<>> =>
    /\ status \in {"idle", "rejected", "error"}
    /\ children = <<>>
    /\ log = <<>>
    /\ diag = <<>>
    /\ ai = 1
    /\ clock = 0

\* The error was raised on a storyboard that carries actions.
C32_Witness ==
  /\ status = "error"
  /\ storyboardData.scenes = <<>>
  /\ storyboardData.actions # <<>>
  /\ children = <<>>
  /\ log = <<>>


\* The action is a type whose payload is missing or empty.
TypesNothing(act) ==
  act.type = "type" /\ (act.payload = Undefined \/ act.payload = <<"">>)

\* C33: a type action whose payload is missing or the empty string is skipped
\* in one step that changes nothing on screen (typing text, cursor, highlight,
\* ripple, nodes, layers) and computes no per-character delay.
C33_EmptyTypeSkipped ==
  [][(log' # log /\ TypesNothing(storyboard.actions[log'[Len(log')].a])) =>
       /\ log'[Len(log')].ev = "no_payload"
       /\ log'[Len(log')].first /\ log'[Len(log')].last
       /\ typingText' = typingText
       /\ cursorPointer' = cursorPointer
       /\ highlightBox' = highlightBox
       /\ cursorClickRipple' = cursorClickRipple
       /\ children' = children
       /\ layerOpacity' = layerOpacity
       /\ charDelay' = charDelay]_vars

\* A type of "" was skipped while the text of an earlier type is still shown.
C33_Witness ==
  /\ log # <<>>
  /\ LastLog.ev = "no_payload"
  /\ ActionOf(Len(log)).type = "type"
  /\ ActionOf(Len(log)).payload = <<"">>
  /\ typingText.text # ""


\* The events of steps that write no property of an element node.
NodeIdle == {"miss", "no_payload", "scene_not_found", "unknown", "wait", "fade_out", "fade_in"}

\* Nothing before the latest action has animated a node: the nodes are as
\* they were built.
NodesAsBuilt == \A k \in 1..Len(log) : log[k].a < LastLog.a => log[k].ev \in NodeIdle

\* The scene whose nodes are in the view.
SceneShown == IF Switches = {} THEN storyboard.scenes[1] ELSE SwitchedTo

\* The kind of the element behind node k.
KindOf(k) ==
  LET hits == Matches(SceneShown, children[k].key)
  IN  SceneShown.elements[First(hits)].type

\* The opacity and shadow blur a node is created with.
BuiltOpacity(k) ==
  CASE variant = "Hybrid" -> 0
    [] KindOf(k) \in {"icon", "image"} -> 80
    [] KindOf(k) = "logo" -> 30
    [] OTHER -> 100

BuiltBlur(k) == IF variant = "Canvas" /\ KindOf(k) = "button" THEN Px(4) ELSE 0

\* C34: a click on a target with a node leaves the node's scale, opacity and
\* shadow blur as they were before the click (here: as the node was built,
\* nothing having animated it before), whatever the element kind.
C34_ClickKeepsNodeProperties ==
  (log # <<>> /\ LastLog.ev = "highlight_fade" /\ NodesAsBuilt) =>
    \A k \in NodesOf(ActionOf(Len(log))) :
      /\ children[k].scale = 100
      /\ children[k].opacity = BuiltOpacity(k)
      /\ children[k].shadowBlur = BuiltBlur(k)


\* C35: a focus glow is transient: when playback has finished no node is left
\* with the shadow blur a cursor_move (8) or a type (12) raised it to.
C35_NoGlowLeftAtEnd ==
  status = "finished" =>
    \A k \in 1..Len(children) : children[k].shadowBlur \notin {Px(8), Px(12)}

\* C36: once a successful switch_scene has faded the new scene in, the
\* highlight and the ripple are at opacity 0 and the typing text is at opacity
\* 0 or empty.
C36_OverlaysHiddenAfterSwitch ==
  (log # <<>> /\ LastLog.ev = "fade_in") =>
    /\ highlightBox.opacity = 0
    /\ cursorClickRipple.opacity = 0
    /\ (typingText.opacity = 0 \/ typingText.text = "")


\* The Layer objects passed to addLayer in the first n calls, in call order.
InsertedBy(n) ==
  LET adds == SelectSeq(SubSeq(builder.calls, 1, n), LAMBDA c : c.op = "addLayer")
  IN  [k \in 1..Len(adds) |-> adds[k].arg]

\* C37: every build() returns the layers in insertion order with the indices
\* 0, 1, ..., n-1, whatever index a layer carried and also when one Layer
\* object was added more than once.
C37_BuildInInsertionOrder ==
  \A j \in 1..Len(builder.returned) :
    LET c == builder.returned[j]
        inserted == InsertedBy(c.at)
    IN  c.was.layers = [k \in 1..Len(inserted) |-> [object |-> inserted[k], index |-> k - 1]]

\* The same, for builds before which no Layer object was added twice.
C37_DistinctLayersInOrder ==
  \A j \in 1..Len(builder.returned) :
    LET c == builder.returned[j]
        inserted == InsertedBy(c.at)
    IN  (\A h, k \in 1..Len(inserted) : h # k => inserted[h] # inserted[k]) =>
          c.was.layers = [k \in 1..Len(inserted) |-> [object |-> inserted[k], index |-> k - 1]]

\* C38: a composition returned by build() keeps the layers and assets it had
\* when returned, whatever is called on the builder afterwards, and two
\* build() calls in a row return equal compositions.
C38_BuildReturnsSnapshot ==
  /\ \A j \in 1..Len(builder.returned) :
       LET c == builder.returned[j]
       IN  /\ LayerValues(Deref(c.layers), builder.index) = c.was.layers
           /\ Deref(c.assets) = c.was.assets
  /\ \A j \in 1..(Len(builder.returned) - 1) :
       builder.returned[j + 1].at = builder.returned[j].at + 1 =>
         builder.returned[j + 1].was = builder.returned[j].was

\* Two build() calls in a row.
C38_BuildsInARowEqual ==
  \A j \in 1..(Len(builder.returned) - 1) :
    builder.returned[j + 1].at = builder.returned[j].at + 1 =>
      builder.returned[j + 1].was = builder.returned[j].was


\* The timeline is in non-decreasing order of startTime.
TimelineSorted ==
  \A k \in 1..(Len(sequencer.timeline) - 1) :
    sequencer.timeline[k].startTime <= sequencer.timeline[k + 1].startTime

\* C39: the timeline is always sorted by startTime, and getDuration() returns
\* 0 for an empty timeline and otherwise at least startTime + duration of
\* every animation on the timeline.
C39_SortedAndDurationCoversAll ==
  /\ TimelineSorted
  /\ sequencer.asked # Undefined =>
       IF sequencer.timeline = <<>> THEN sequencer.asked[1] = 0
       ELSE \A k \in 1..Len(sequencer.timeline) :
              sequencer.asked[1] >= sequencer.timeline[k].startTime
                                    + sequencer.timeline[k].duration
====
